---- MODULE Spec2Model ----
(***************************************************************************)
(* State-machine model of src/app.py (startgg_ongoing_safe): the event     *)
(* resolver, the paginated fetcher with its FULL -> LIGHT fallback, and    *)
(* the ongoing-set classifier.                                             *)
(*                                                                         *)
(* Every variable is a function over the ids of the calls (sessions) that  *)
(* are running; all of them are locals of one Python call frame, so each   *)
(* call has its own copy.  Optional values (Python None) are sequences:    *)
(* <<>> is None and <<x>> is the value x.                                  *)
(***************************************************************************)
EXTENDS Integers, Sequences, FiniteSets, TLC

\* ------------------------------------------------------------------------
\* Bounds of the model
\* ------------------------------------------------------------------------
\* highest page index a call may request (caps the unbounded page counter)
MaxPage == 3
\* totalPages values the remote service may report: 0..MaxTotalPages
MaxTotalPages == 3
\* max_pages values a caller may pass: None, 0..MaxMaxPages
MaxMaxPages == 2
\* a requested per-page size below the light cap
SmallPerPage == 1
\* longest record list handed to the classifier on its own
MaxClassifyLen == 3
\* longest "errors" list of a response
MaxErrors == 2

\* ------------------------------------------------------------------------
\* Program constants
\* ------------------------------------------------------------------------
\* min(per_page, 10): page size ceiling of the light mode
LightPerPageCap == 10

\* ------------------------------------------------------------------------
\* Python values
\* ------------------------------------------------------------------------
None == <<>>
Some(x) == <<x>>

\* truth value of an Optional[int]: None and 0 are falsy
Truthy(o) == o # None /\ o[1] # 0

\* a or b
PyOr(a, b) == IF Truthy(a) THEN a ELSE b

Min(a, b) == IF a < b THEN a ELSE b

\* ------------------------------------------------------------------------
\* int(event): surrounding blanks stripped, an optional sign, then one or
\* more decimal digits; anything else raises ValueError (None here).
\* Strings are sequences of one-character strings.
\* ------------------------------------------------------------------------
Digits == <<"0", "1", "2", "3", "4", "5", "6", "7", "8", "9">>

IsDigit(c) == \E d \in 1..10 : Digits[d] = c

DigitVal(c) == (CHOOSE d \in 1..10 : Digits[d] = c) - 1

RECURSIVE LStrip(_)
LStrip(str) ==
    IF str # <<>> /\ Head(str) = " " THEN LStrip(Tail(str)) ELSE str

RECURSIVE RStrip(_)
RStrip(str) ==
    IF str # <<>> /\ str[Len(str)] = " "
    THEN RStrip(SubSeq(str, 1, Len(str) - 1))
    ELSE str

RECURSIVE DigitsValue(_, _)
DigitsValue(str, acc) ==
    IF str = <<>> THEN acc
    ELSE DigitsValue(Tail(str), 10 * acc + DigitVal(Head(str)))

ParseInt(str) ==
    LET t == RStrip(LStrip(str))
        signed == t # <<>> /\ Head(t) \in {"+", "-"}
        body == IF signed THEN Tail(t) ELSE t
    IN  IF body = <<>> \/ \E i \in 1..Len(body) : ~IsDigit(body[i])
        THEN None
        ELSE IF signed /\ Head(t) = "-"
             THEN Some(0 - DigitsValue(body, 0))
             ELSE Some(DigitsValue(body, 0))

\* ------------------------------------------------------------------------
\* The remote service
\* ------------------------------------------------------------------------
\* a set node as the FULL and LIGHT queries both select it; light/page/idx
\* stand for the node id (which request returned it, and where on the page)
MkNode(light, p, i, sa, st, ca, w) ==
    [light |-> light, page |-> p, idx |-> i,
     startedAt |-> sa, startAt |-> st, completedAt |-> ca, winnerId |-> w]

Bit(i, k) == (i \div (2 ^ k)) % 2 = 1

\* the i-th node of page p: the four timestamp/result fields run through
\* all present/absent combinations as i grows
ServerNode(light, p, i) ==
    MkNode(light, p, i,
           IF Bit(i, 0) THEN Some(100 + i) ELSE None,
           IF Bit(i, 3) THEN Some(200 + i) ELSE None,
           IF Bit(i, 1) THEN Some(300 + i) ELSE None,
           IF Bit(i, 2) THEN Some(400 + i) ELSE None)

ServerNodes(light, p, n) == [i \in 1..n |-> ServerNode(light, p, i)]

\* node counts a page may carry: empty, a small page, a page of the light cap
NodeCounts == {0, SmallPerPage, LightPerPageCap}

\* per_page values a caller may pass: below and above the light cap
PerPages == {SmallPerPage, LightPerPageCap + 1}

\* pageInfo.totalPages of a response: absent, or an integer
TotalPagesOpts == {None} \cup {Some(t) : t \in 0..MaxTotalPages}

\* max_pages of a call
MaxPagesOpts == {None} \cup {Some(m) : m \in 0..MaxMaxPages}

\* the "sets" container of a successful page response
Containers(light, p) ==
    { [nodes |-> nd, totalPages |-> tp] :
        nd \in {None} \cup {Some(ServerNodes(light, p, n)) : n \in NodeCounts},
        tp \in TotalPagesOpts }

\* event references handed to get_ongoing_sets_for_event
EventRefs == { <<"4", "2">>, <<" ", "7">>, <<"e", "v">> }

\* event ids the service resolves a slug to
SlugEventIds == {7}

\* event ids handed to fetch_all_sets_for_event directly
DirectEventIds == {5}

\* failures of one request other than a complexity rejection:
\* requests' transport/HTTP errors and RuntimeError("GraphQL errors: ...")
FailureKinds == {"HTTPError", "RuntimeError_GraphQLErrors"}

\* ------------------------------------------------------------------------
\* State
\* ------------------------------------------------------------------------
VARIABLES
    entry,          \* which function the caller invoked
    event,          \* get_ongoing_sets_for_event: the event argument
    event_id,       \* resolved / given event id (Optional)
    per_page,       \* requested per-page size
    max_pages,      \* Optional cap on pages
    force_light,    \* skip the full query
    attempt_light,  \* fetch_all_sets_for_event locals ...
    used_per_page,
    light_mode,
    sets,
    page,
    all_sets,       \* value returned by fetch_all_sets_for_event
    ongoing,        \* value returned by get_ongoing_sets_for_event
    pc,             \* position of the call
    err,            \* exception the call ended with ("none" if none)
    cause,          \* __cause__ of that exception
    calls,          \* history: every network request the call issued,
                    \* with its outcome
    got,            \* history: node count of every page received in the
                    \* current attempt, in order
    tpSeen,         \* history: the totalPages values received in the
                    \* current attempt
    beyond,         \* history: parity of the page requests issued for
                    \* pages above MaxPage (which are not recorded)
    resp,           \* _graphql_query: the HTTP response (Optional)
    result          \* _graphql_query: what it returned or raised (Optional)

vars == <<entry, event, event_id, per_page, max_pages, force_light,
          attempt_light, used_per_page, light_mode, sets, page, all_sets,
          ongoing, pc, err, cause, calls, got, tpSeen, beyond, resp, result>>

queryVars == <<resp, result>>

inputVars == <<entry, event, per_page, max_pages, force_light>>

Sessions == DOMAIN pc

Done(s) == pc[s] \in {"returned", "raised"}

\* network requests of the call, as logged
SlugCall(slug, outcome) ==
    [op |-> "slug", slug |-> slug, eventId |-> None, page |-> 0,
     perPage |-> 0, light |-> FALSE, outcome |-> outcome]

PageCall(eid, p, pp, light, outcome) ==
    [op |-> "page", slug |-> <<>>, eventId |-> eid, page |-> p,
     perPage |-> pp, light |-> light, outcome |-> outcome]

IsPageCall(c) == c.op = "page"

PageCalls(s) == SelectSeq(calls[s], IsPageCall)

\* ------------------------------------------------------------------------
\* Initial states: one call, at its entry
\* ------------------------------------------------------------------------
InitLocals(S) ==
    /\ attempt_light = [s \in S |-> FALSE]
    /\ used_per_page = [s \in S |-> 0]
    /\ light_mode = [s \in S |-> FALSE]
    /\ sets = [s \in S |-> <<>>]
    /\ page = [s \in S |-> 0]
    /\ ongoing = [s \in S |-> <<>>]
    /\ err = [s \in S |-> "none"]
    /\ cause = [s \in S |-> "none"]
    /\ calls = [s \in S |-> <<>>]
    /\ got = [s \in S |-> <<>>]
    /\ tpSeen = [s \in S |-> {}]
    /\ beyond = [s \in S |-> FALSE]

\* get_ongoing_sets_for_event(api_key, event, per_page, force_light)
\* passes no max_pages on
InitCalls(S) ==
    /\ entry \in [S -> {"fetch_all", "get_ongoing"}]
    /\ per_page \in [S -> PerPages]
    /\ force_light \in [S -> BOOLEAN]
    /\ max_pages \in [S -> MaxPagesOpts]
    /\ event \in [S -> EventRefs \cup {<<>>}]
    /\ event_id \in [S -> {None} \cup {Some(e) : e \in DirectEventIds}]
    /\ \A s \in S :
        IF entry[s] = "fetch_all"
        THEN event[s] = <<>> /\ event_id[s] # None
        ELSE event[s] \in EventRefs /\ max_pages[s] = None
             /\ event_id[s] = None
    /\ pc = [s \in S |-> IF entry[s] = "fetch_all" THEN "enter_fetch"
                          ELSE "resolve"]

\* no response of the service is looked into
InitNoQuery == resp = None /\ result = None

Init ==
    /\ InitCalls({1})
    /\ InitLocals({1})
    /\ all_sets = [s \in {1} |-> <<>>]
    /\ InitNoQuery

\* ------------------------------------------------------------------------
\* get_ongoing_sets_for_event: event resolution
\* ------------------------------------------------------------------------
\* mutant: the slug query is sent although int(event) succeeded
ResolveInt_AlsoQueries(s) ==
    /\ pc[s] = "resolve"
    /\ ParseInt(event[s]) # None
    /\ calls' = [calls EXCEPT ![s] = Append(@, SlugCall(event[s], "ok"))]
    /\ event_id' = [event_id EXCEPT ![s] = ParseInt(event[s])]
    /\ pc' = [pc EXCEPT ![s] = "enter_fetch"]
    /\ UNCHANGED <<queryVars, beyond, inputVars, attempt_light, used_per_page, light_mode, sets,
                   page, all_sets, ongoing, err, cause, got, tpSeen>>

\* event_id = int(event) succeeded
ResolveInt(s) ==
    /\ pc[s] = "resolve"
    /\ ParseInt(event[s]) # None
    /\ event_id' = [event_id EXCEPT ![s] = ParseInt(event[s])]
    /\ pc' = [pc EXCEPT ![s] = "enter_fetch"]
    /\ UNCHANGED <<queryVars, beyond, inputVars, attempt_light, used_per_page, light_mode, sets,
                   page, all_sets, ongoing, err, cause, calls, got, tpSeen>>

\* int(event) raised; get_event_id_from_slug found the event
ResolveSlugFound(s, eid) ==
    /\ pc[s] = "resolve"
    /\ ParseInt(event[s]) = None
    /\ calls' = [calls EXCEPT ![s] = Append(@, SlugCall(event[s], "ok"))]
    /\ event_id' = [event_id EXCEPT ![s] = Some(eid)]
    /\ pc' = [pc EXCEPT ![s] = "enter_fetch"]
    /\ UNCHANGED <<queryVars, beyond, inputVars, attempt_light, used_per_page, light_mode, sets,
                   page, all_sets, ongoing, err, cause, got, tpSeen>>

\* mutant: a response without event is asked for again
ResolveSlugNotFound_Retries(s) ==
    /\ pc[s] = "resolve"
    /\ ParseInt(event[s]) = None
    /\ Len(calls[s]) < 2
    /\ calls' = [calls EXCEPT
                    ![s] = Append(@, SlugCall(event[s], "no_event"))]
    /\ UNCHANGED <<queryVars, beyond, inputVars, event_id, attempt_light,
                   used_per_page, light_mode, sets, page, all_sets, ongoing,
                   pc, err, cause, got, tpSeen>>

\* int(event) raised; the response has no event: ValueError
ResolveSlugNotFound(s) ==
    /\ pc[s] = "resolve"
    /\ ParseInt(event[s]) = None
    /\ calls' = [calls EXCEPT
                    ![s] = Append(@, SlugCall(event[s], "no_event"))]
    /\ err' = [err EXCEPT ![s] = "ValueError"]
    /\ pc' = [pc EXCEPT ![s] = "raised"]
    /\ UNCHANGED <<queryVars, beyond, inputVars, event_id, attempt_light, used_per_page,
                   light_mode, sets, page, all_sets, ongoing, cause, got, tpSeen>>

\* mutant: a complexity rejection of the slug query enters the fallback and
\* the page loop starts in LIGHT mode
ResolveSlugError_Fallback(s, kind) ==
    /\ pc[s] = "resolve"
    /\ ParseInt(event[s]) = None
    /\ calls' = [calls EXCEPT ![s] = Append(@, SlugCall(event[s], kind))]
    /\ IF kind = "GraphQLComplexityError"
       THEN /\ event_id' = [event_id EXCEPT ![s] = Some(7)]
            /\ attempt_light' = [attempt_light EXCEPT ![s] = TRUE]
            /\ pc' = [pc EXCEPT ![s] = "attempt"]
            /\ err' = err
       ELSE /\ err' = [err EXCEPT ![s] = kind]
            /\ pc' = [pc EXCEPT ![s] = "raised"]
            /\ UNCHANGED <<event_id, attempt_light>>
    /\ UNCHANGED <<queryVars, beyond, inputVars, used_per_page,
                   light_mode, sets, page, all_sets, ongoing, cause, got, tpSeen>>

\* int(event) raised; _graphql_query raised inside get_event_id_from_slug
ResolveSlugError(s, kind) ==
    /\ pc[s] = "resolve"
    /\ ParseInt(event[s]) = None
    /\ calls' = [calls EXCEPT ![s] = Append(@, SlugCall(event[s], kind))]
    /\ err' = [err EXCEPT ![s] = kind]
    /\ pc' = [pc EXCEPT ![s] = "raised"]
    /\ UNCHANGED <<queryVars, beyond, inputVars, event_id, attempt_light, used_per_page,
                   light_mode, sets, page, all_sets, ongoing, cause, got, tpSeen>>

\* ------------------------------------------------------------------------
\* fetch_all_sets_for_event
\* ------------------------------------------------------------------------
\* mutant: the first attempt is FULL whatever force_light says
EnterFetchAll_IgnoreForce(s) ==
    /\ pc[s] = "enter_fetch"
    /\ attempt_light' = [attempt_light EXCEPT ![s] = FALSE]
    /\ pc' = [pc EXCEPT ![s] = "attempt"]
    /\ UNCHANGED <<queryVars, beyond, inputVars, event_id, used_per_page, light_mode, sets, page,
                   all_sets, ongoing, err, cause, calls, got, tpSeen>>

\* attempt_light = force_light
EnterFetchAll(s) ==
    /\ pc[s] = "enter_fetch"
    /\ attempt_light' = [attempt_light EXCEPT ![s] = force_light[s]]
    /\ pc' = [pc EXCEPT ![s] = "attempt"]
    /\ UNCHANGED <<queryVars, beyond, inputVars, event_id, used_per_page, light_mode, sets, page,
                   all_sets, ongoing, err, cause, calls, got, tpSeen>>

\* mutant: the LIGHT attempt keeps the requested size
UsedPerPage_NoCap(light, requested) == requested

\* effective per-page size of an attempt
UsedPerPage(light, requested) ==
    IF light THEN Min(requested, LightPerPageCap) ELSE requested

\* mutant: the accumulator is not emptied when an attempt starts
BeginAttempt_KeepSets(s) ==
    /\ pc[s] = "attempt"
    /\ used_per_page' = [used_per_page EXCEPT
                            ![s] = UsedPerPage(attempt_light[s], per_page[s])]
    /\ light_mode' = [light_mode EXCEPT ![s] = attempt_light[s]]
    /\ page' = [page EXCEPT ![s] = 1]
    /\ got' = [got EXCEPT ![s] = <<>>]
    /\ tpSeen' = [tpSeen EXCEPT ![s] = {}]
    /\ pc' = [pc EXCEPT ![s] = "request"]
    /\ UNCHANGED <<queryVars, beyond, inputVars, event_id, attempt_light, sets, all_sets,
                   ongoing, err, cause, calls>>

\* mutant: the page counter is not reset when an attempt starts
BeginAttempt_KeepPage(s) ==
    /\ pc[s] = "attempt"
    /\ used_per_page' = [used_per_page EXCEPT
                            ![s] = UsedPerPage(attempt_light[s], per_page[s])]
    /\ light_mode' = [light_mode EXCEPT ![s] = attempt_light[s]]
    /\ sets' = [sets EXCEPT ![s] = <<>>]
    /\ page' = [page EXCEPT ![s] = IF @ = 0 THEN 1 ELSE @]
    /\ got' = [got EXCEPT ![s] = <<>>]
    /\ tpSeen' = [tpSeen EXCEPT ![s] = {}]
    /\ pc' = [pc EXCEPT ![s] = "request"]
    /\ UNCHANGED <<queryVars, beyond, inputVars, event_id, attempt_light, all_sets, ongoing, err,
                   cause, calls>>

\* top of the outer loop: choose the mode, start over from page 1
BeginAttempt(s) ==
    /\ pc[s] = "attempt"
    /\ used_per_page' = [used_per_page EXCEPT
                            ![s] = UsedPerPage(attempt_light[s], per_page[s])]
    /\ light_mode' = [light_mode EXCEPT ![s] = attempt_light[s]]
    /\ sets' = [sets EXCEPT ![s] = <<>>]
    /\ page' = [page EXCEPT ![s] = 1]
    /\ got' = [got EXCEPT ![s] = <<>>]
    /\ tpSeen' = [tpSeen EXCEPT ![s] = {}]
    /\ pc' = [pc EXCEPT ![s] = "request"]
    /\ UNCHANGED <<queryVars, beyond, inputVars, event_id, attempt_light, all_sets, ongoing, err,
                   cause, calls>>

\* the request of the current loop iteration, logged with its outcome
CurrentCall(s, outcome) ==
    PageCall(event_id[s], page[s], used_per_page[s], light_mode[s], outcome)

\* the number of nodes the service put on a page (null counts as none)
ContainerCount(container) ==
    IF container.nodes = None THEN 0 ELSE Len(container.nodes[1])

\* mutant: the last node of every page is lost
NodesOf_DropsLast(container) ==
    IF container.nodes = None \/ container.nodes[1] = <<>> THEN <<>>
    ELSE SubSeq(container.nodes[1], 1, Len(container.nodes[1]) - 1)

\* container.get("nodes") or []
NodesOf(container) ==
    IF container.nodes = None THEN <<>> ELSE container.nodes[1]

\* mutant: the totalPages test is off by one (page > total_pages)
PaginationBreak_OffByOne(total_pages, n, used, p) ==
    IF total_pages = None THEN n < used ELSE p > total_pages[1]

\* mutant: a page of exactly the per-page size ends the loop (n <= used)
PaginationBreak_FullPageStops(total_pages, n, used, p) ==
    IF total_pages = None THEN n <= used ELSE p >= total_pages[1]

\* the inner loop breaks on the pagination test
PaginationBreak(total_pages, n, used, p) ==
    IF total_pages = None THEN n < used ELSE p >= total_pages[1]

\* mutant: the cap test compares the wrong way round (page < max_pages)
CapBreak_WrongWay(mp, p) == Truthy(mp) /\ p < mp[1]

\* max_pages and page > max_pages (page already incremented)
CapBreak(mp, p) == Truthy(mp) /\ p > mp[1]

\* one inner-loop iteration whose request succeeds
FetchPageOk(s, container) ==
    /\ pc[s] = "request"
    /\ page[s] <= MaxPage
    /\ container \in Containers(light_mode[s], page[s])
    /\ calls' = [calls EXCEPT ![s] = Append(@, CurrentCall(s, "ok"))]
    /\ got' = [got EXCEPT ![s] = Append(@, ContainerCount(container))]
    /\ tpSeen' = [tpSeen EXCEPT ![s] = @ \cup {container.totalPages}]
    /\ LET nodes == NodesOf(container)
           newSets == sets[s] \o nodes
           stop1 == PaginationBreak(container.totalPages, Len(nodes),
                                    used_per_page[s], page[s])
           newPage == IF stop1 THEN page[s] ELSE page[s] + 1
           stop == stop1 \/ CapBreak(max_pages[s], newPage)
       IN  /\ sets' = [sets EXCEPT ![s] = newSets]
           /\ page' = [page EXCEPT ![s] = newPage]
           /\ IF stop
              THEN /\ all_sets' = [all_sets EXCEPT ![s] = newSets]
                   /\ pc' = [pc EXCEPT ![s] =
                               IF entry[s] = "get_ongoing" THEN "classify"
                               ELSE "returned"]
              ELSE /\ pc' = pc
                   /\ all_sets' = all_sets
    /\ UNCHANGED <<queryVars, beyond, inputVars, event_id, attempt_light, used_per_page,
                   light_mode, ongoing, err, cause>>

\* mutant: the rejection is swallowed inside the inner loop, which goes on
\* with the next page
FetchPageComplexity_NextPage(s) ==
    /\ pc[s] = "request"
    /\ page[s] <= MaxPage
    /\ calls' = [calls EXCEPT
                    ![s] = Append(@, CurrentCall(s, "GraphQLComplexityError"))]
    /\ page' = [page EXCEPT ![s] = @ + 1]
    /\ UNCHANGED <<queryVars, beyond, inputVars, event_id, attempt_light, used_per_page,
                   light_mode, sets, all_sets, ongoing, pc, err, cause, got,
                   tpSeen>>

\* mutant: attempt_light is one flag shared by all calls
FetchPageComplexity_SharedFlag(s) ==
    /\ pc[s] = "request"
    /\ page[s] <= MaxPage
    /\ calls' = [calls EXCEPT
                    ![s] = Append(@, CurrentCall(s, "GraphQLComplexityError"))]
    /\ IF attempt_light[s]
       THEN /\ err' = [err EXCEPT ![s] = "RuntimeError_LightComplexity"]
            /\ cause' = [cause EXCEPT ![s] = "GraphQLComplexityError"]
            /\ pc' = [pc EXCEPT ![s] = "raised"]
            /\ UNCHANGED attempt_light
       ELSE /\ attempt_light' = [t \in Sessions |-> TRUE]
            /\ pc' = [pc EXCEPT ![s] = "attempt"]
            /\ UNCHANGED <<err, cause>>
    /\ UNCHANGED <<queryVars, beyond, inputVars, event_id, used_per_page,
                   light_mode, sets, page, all_sets, ongoing, got, tpSeen>>

\* mutant: the handler retries in light mode without testing attempt_light
FetchPageComplexity_AlwaysRetry(s) ==
    /\ pc[s] = "request"
    /\ page[s] <= MaxPage
    /\ Len(calls[s]) < 3 * MaxPage
    /\ calls' = [calls EXCEPT
                    ![s] = Append(@, CurrentCall(s, "GraphQLComplexityError"))]
    /\ attempt_light' = [attempt_light EXCEPT ![s] = TRUE]
    /\ pc' = [pc EXCEPT ![s] = "attempt"]
    /\ UNCHANGED <<queryVars, beyond, inputVars, event_id, used_per_page, light_mode, sets, page,
                   all_sets, ongoing, err, cause, got, tpSeen>>

\* mutant: the handler flips attempt_light instead of setting it
FetchPageComplexity_Toggle(s) ==
    /\ pc[s] = "request"
    /\ page[s] <= MaxPage
    /\ Len(calls[s]) < 3 * MaxPage
    /\ calls' = [calls EXCEPT
                    ![s] = Append(@, CurrentCall(s, "GraphQLComplexityError"))]
    /\ attempt_light' = [attempt_light EXCEPT ![s] = ~@]
    /\ pc' = [pc EXCEPT ![s] = "attempt"]
    /\ UNCHANGED <<queryVars, beyond, inputVars, event_id, used_per_page, light_mode, sets, page,
                   all_sets, ongoing, err, cause, got, tpSeen>>

\* one inner-loop iteration whose request raises GraphQLComplexityError
FetchPageComplexity(s) ==
    /\ pc[s] = "request"
    /\ page[s] <= MaxPage
    /\ calls' = [calls EXCEPT
                    ![s] = Append(@, CurrentCall(s, "GraphQLComplexityError"))]
    /\ IF attempt_light[s]
       THEN /\ err' = [err EXCEPT ![s] = "RuntimeError_LightComplexity"]
            /\ cause' = [cause EXCEPT ![s] = "GraphQLComplexityError"]
            /\ pc' = [pc EXCEPT ![s] = "raised"]
            /\ UNCHANGED attempt_light
       ELSE /\ attempt_light' = [attempt_light EXCEPT ![s] = TRUE]
            /\ pc' = [pc EXCEPT ![s] = "attempt"]
            /\ UNCHANGED <<err, cause>>
    /\ UNCHANGED <<queryVars, beyond, inputVars, event_id, used_per_page, light_mode, sets, page,
                   all_sets, ongoing, got, tpSeen>>

\* one inner-loop iteration for a page above MaxPage whose response keeps
\* the loop running: the counter and the histories stay at the bound, only
\* the parity of these iterations is kept
FetchPageBeyondBound(s) ==
    /\ pc[s] = "request"
    /\ page[s] > MaxPage
    /\ \E container \in Containers(light_mode[s], page[s]) :
          /\ ~PaginationBreak(container.totalPages, Len(NodesOf(container)),
                              used_per_page[s], page[s])
          /\ ~CapBreak(max_pages[s], page[s] + 1)
    /\ beyond' = [beyond EXCEPT ![s] = ~@]
    /\ UNCHANGED <<queryVars, inputVars, event_id, attempt_light,
                   used_per_page, light_mode, sets, page, all_sets, ongoing,
                   pc, err, cause, calls, got, tpSeen>>

\* mutant: every exception is handled like a complexity rejection
FetchPageFailure_Downgrade(s, kind) ==
    /\ pc[s] = "request"
    /\ page[s] <= MaxPage
    /\ calls' = [calls EXCEPT ![s] = Append(@, CurrentCall(s, kind))]
    /\ IF attempt_light[s]
       THEN /\ err' = [err EXCEPT ![s] = "RuntimeError_LightComplexity"]
            /\ cause' = [cause EXCEPT ![s] = kind]
            /\ pc' = [pc EXCEPT ![s] = "raised"]
            /\ UNCHANGED attempt_light
       ELSE /\ attempt_light' = [attempt_light EXCEPT ![s] = TRUE]
            /\ pc' = [pc EXCEPT ![s] = "attempt"]
            /\ UNCHANGED <<err, cause>>
    /\ UNCHANGED <<queryVars, beyond, inputVars, event_id, used_per_page, light_mode,
                   sets, page, all_sets, ongoing, got, tpSeen>>

\* one inner-loop iteration whose request raises anything else
FetchPageFailure(s, kind) ==
    /\ pc[s] = "request"
    /\ page[s] <= MaxPage
    /\ calls' = [calls EXCEPT ![s] = Append(@, CurrentCall(s, kind))]
    /\ err' = [err EXCEPT ![s] = kind]
    /\ pc' = [pc EXCEPT ![s] = "raised"]
    /\ UNCHANGED <<queryVars, beyond, inputVars, event_id, attempt_light, used_per_page,
                   light_mode, sets, page, all_sets, ongoing, cause, got, tpSeen>>

\* ------------------------------------------------------------------------
\* The classifier
\* ------------------------------------------------------------------------
\* mutant: the "started + no winner" fallback is missing
is_set_ongoing_NoWinnerRule(set_node) ==
    LET started_at == PyOr(set_node.startedAt, set_node.startAt)
        completed_at == set_node.completedAt
    IN  IF Truthy(started_at) /\ ~Truthy(completed_at) THEN TRUE
        ELSE FALSE

is_set_ongoing(set_node) ==
    LET started_at == PyOr(set_node.startedAt, set_node.startAt)
        completed_at == set_node.completedAt
        winner_id == set_node.winnerId
    IN  IF Truthy(started_at) /\ ~Truthy(completed_at) THEN TRUE
        ELSE IF Truthy(started_at) /\ ~Truthy(winner_id) THEN TRUE
        ELSE FALSE

\* [s for s in all_sets if is_set_ongoing(s)]
OngoingOf(list) == SelectSeq(list, is_set_ongoing)

Classify(s) ==
    /\ pc[s] = "classify"
    /\ ongoing' = [ongoing EXCEPT ![s] = OngoingOf(all_sets[s])]
    /\ pc' = [pc EXCEPT ![s] = "returned"]
    /\ UNCHANGED <<queryVars, beyond, inputVars, event_id, attempt_light, used_per_page,
                   light_mode, sets, page, all_sets, err, cause, calls, got, tpSeen>>

\* ------------------------------------------------------------------------
\* Specification
\* ------------------------------------------------------------------------
Next ==
    \/ \E s \in Sessions : ResolveInt(s)
    \/ \E s \in Sessions : \E eid \in SlugEventIds : ResolveSlugFound(s, eid)
    \/ \E s \in Sessions : ResolveSlugNotFound(s)
    \/ \E s \in Sessions :
           \E kind \in FailureKinds \cup {"GraphQLComplexityError"} :
               ResolveSlugError(s, kind)
    \/ \E s \in Sessions : EnterFetchAll(s)
    \/ \E s \in Sessions : BeginAttempt(s)
    \/ \E s \in Sessions :
           \E container \in Containers(light_mode[s], page[s]) :
               FetchPageOk(s, container)
    \/ \E s \in Sessions : FetchPageComplexity(s)
    \/ \E s \in Sessions : FetchPageBeyondBound(s)
    \/ \E s \in Sessions : \E kind \in FailureKinds : FetchPageFailure(s, kind)
    \/ \E s \in Sessions : Classify(s)

Spec == Init /\ [][Next]_vars

\* Every call is one synchronous thread of blocking requests, each of which
\* returns or raises (requests.post has a 15 s timeout): a call that can take
\* a step eventually takes one.
FairSpec == Init /\ [][Next]_vars /\ WF_vars(Next)

\* The classifier on its own: get_ongoing_sets_for_event at the point where
\* fetch_all_sets_for_event has returned all_sets, for every list of up to
\* MaxClassifyLen records and every present/absent combination of the four
\* fields the classifier reads (timestamps and ids of the service are
\* positive integers).
Presence == {None, Some(1)}

ClassifyInputs ==
    UNION { [1..n -> [startedAt : Presence, startAt : Presence,
                      completedAt : Presence, winnerId : Presence]] :
            n \in 0..MaxClassifyLen }

NodesFrom(fields) ==
    [i \in 1..Len(fields) |->
        MkNode(FALSE, 1, i, fields[i].startedAt, fields[i].startAt,
               fields[i].completedAt, fields[i].winnerId)]

InitClassify ==
    /\ entry = [s \in {1} |-> "get_ongoing"]
    /\ event = [s \in {1} |-> <<"4", "2">>]
    /\ event_id = [s \in {1} |-> Some(42)]
    /\ per_page = [s \in {1} |-> SmallPerPage]
    /\ max_pages = [s \in {1} |-> None]
    /\ force_light = [s \in {1} |-> FALSE]
    /\ InitLocals({1})
    /\ \E fields \in ClassifyInputs :
          all_sets = [s \in {1} |-> NodesFrom(fields)]
    /\ pc = [s \in {1} |-> "classify"]
    /\ InitNoQuery

NextClassify == \E s \in Sessions : Classify(s)

SpecClassify == InitClassify /\ [][NextClassify]_vars

\* ------------------------------------------------------------------------
\* _graphql_query: classification of one response
\* ------------------------------------------------------------------------
\* text is a sequence of one-character strings
UpperCase ==
    <<"A", "B", "C", "D", "E", "F", "G", "H", "I", "J", "K",
      "L", "M", "N", "O", "P", "Q", "R", "S", "T", "U", "V",
      "W", "X", "Y", "Z">>
LowerCase ==
    <<"a", "b", "c", "d", "e", "f", "g", "h", "i", "j", "k",
      "l", "m", "n", "o", "p", "q", "r", "s", "t", "u", "v",
      "w", "x", "y", "z">>

\* str.lower(), character by character
LowerChar(ch) ==
    IF \E i \in 1..26 : UpperCase[i] = ch
    THEN LowerCase[CHOOSE i \in 1..26 : UpperCase[i] = ch]
    ELSE ch

lower(text) == [i \in 1..Len(text) |-> LowerChar(text[i])]

\* needle in text
Contains(text, needle) ==
    \E i \in 1..(Len(text) - Len(needle) + 1) :
        SubSeq(text, i, i + Len(needle) - 1) = needle

KwComplexity ==
    <<"c", "o", "m", "p", "l", "e", "x", "i", "t", "y">>
KwMaxObjects ==
    <<"m", "a", "x", "i", "m", "u", "m", " ", "o", "f", " ",
    "1", "0", "0", "0", " ", "o", "b", "j", "e", "c", "t",
    "s">>

\* error messages the service may send
\* the bare keyword
MsgPlain ==
    <<"c", "o", "m", "p", "l", "e", "x", "i", "t", "y">>
\* the keyword inside a sentence, mixed case
MsgMixed ==
    <<"Q", "u", "e", "r", "y", " ", "C", "O", "M", "P", "L",
      "E", "X", "i", "t", "y", " ", "i", "s", " ", "t", "o",
      "o", " ", "h", "i", "g", "h">>
\* the keyword cut short
MsgTruncated ==
    <<"c", "o", "m", "p", "l", "e", "x", "i", "t">>
\* the object-limit phrase, mixed case
MsgObjects ==
    <<"A", " ", "M", "a", "x", "i", "m", "u", "m", " ", "O",
      "f", " ", "1", "0", "0", "0", " ", "O", "b", "j", "e",
      "c", "t", "s", " ", "m", "a", "y", " ", "b", "e", " ",
      "r", "e", "t", "u", "r", "n", "e", "d">>
\* a different limit
MsgOtherLimit ==
    <<"m", "a", "x", "i", "m", "u", "m", " ", "o", "f", " ",
      "1", "0", "0", " ", "o", "b", "j", "e", "c", "t", "s">>
\* an unrelated error
MsgOther ==
    <<"E", "v", "e", "n", "t", " ", "n", "o", "t", " ", "f",
      "o", "u", "n", "d">>

Messages ==
    {<<>>, MsgPlain, MsgMixed, MsgTruncated, MsgObjects, MsgOtherLimit,
     MsgOther}

\* one entry of "errors": its "message" key is absent or holds a text
ErrorEntries == {[message |-> m] : m \in {None} \cup {Some(t) : t \in Messages}}

ErrorLists == UNION {[1..n -> ErrorEntries] : n \in 0..MaxErrors}

\* the HTTP response: its status, and the decoded body with its "errors" key
\* absent or present
Responses ==
    [status_ok : BOOLEAN,
     errors : {None} \cup {Some(l) : l \in ErrorLists},
     data : {"DATA"}]

\* e.get("message", "")
MessageOf(e) == IF e.message = None THEN <<>> ELSE e.message[1]

\* the test of one message text
IsComplexityText(msg_text) ==
    \/ Contains(lower(msg_text), KwComplexity)
    \/ Contains(lower(msg_text), KwMaxObjects)

\* what _graphql_query returns or raises
Returned(d) == [kind |-> "data", message |-> <<>>, errors |-> <<>>, data |-> d]
Raised(kind, msg_text, msgs) ==
    [kind |-> kind, message |-> msg_text, errors |-> msgs, data |-> ""]

\* for e in msgs: raise GraphQLComplexityError at the first matching message;
\* RuntimeError with the whole list after the loop
RECURSIVE ErrorsLoop(_, _)
ErrorsLoop(msgs, i) ==
    IF i > Len(msgs)
    THEN Raised("RuntimeError_GraphQLErrors", <<>>, msgs)
    ELSE IF IsComplexityText(MessageOf(msgs[i]))
         THEN Raised("GraphQLComplexityError", MessageOf(msgs[i]), <<>>)
         ELSE ErrorsLoop(msgs, i + 1)

\* mutant: only the first error of the list is inspected
_graphql_query_FirstOnly(r) ==
    IF ~r.status_ok THEN Raised("HTTPError", <<>>, <<>>)
    ELSE IF r.errors # None
         THEN IF r.errors[1] # <<>>
                 /\ IsComplexityText(MessageOf(r.errors[1][1]))
              THEN Raised("GraphQLComplexityError",
                          MessageOf(r.errors[1][1]), <<>>)
              ELSE Raised("RuntimeError_GraphQLErrors", <<>>, r.errors[1])
         ELSE Returned(r.data)

\* _graphql_query on the response r of requests.post
_graphql_query(r) ==
    IF ~r.status_ok THEN Raised("HTTPError", <<>>, <<>>)
    ELSE IF r.errors # None THEN ErrorsLoop(r.errors[1], 1)
         ELSE Returned(r.data)

\* the request is answered and _graphql_query runs to its end
Execute ==
    /\ resp # None /\ result = None
    /\ result' = Some(_graphql_query(resp[1]))
    /\ UNCHANGED <<resp, entry, event, event_id, per_page, max_pages,
                   force_light, attempt_light, used_per_page, light_mode,
                   sets, page, all_sets, ongoing, pc, err, cause, calls, got,
                   tpSeen, beyond>>

\* _graphql_query on its own, for every response
InitExecutor ==
    /\ entry = [s \in {1} |-> "fetch_all"]
    /\ event = [s \in {1} |-> <<>>]
    /\ event_id = [s \in {1} |-> Some(5)]
    /\ per_page = [s \in {1} |-> SmallPerPage]
    /\ max_pages = [s \in {1} |-> None]
    /\ force_light = [s \in {1} |-> FALSE]
    /\ InitLocals({1})
    /\ all_sets = [s \in {1} |-> <<>>]
    /\ pc = [s \in {1} |-> "request"]
    /\ resp \in {Some(r) : r \in Responses}
    /\ result = None

NextExecutor == Execute

SpecExecutor == InitExecutor /\ [][NextExecutor]_vars

\* ------------------------------------------------------------------------
\* Two concurrent calls of fetch_all_sets_for_event
\* ------------------------------------------------------------------------
\* Two threads call fetch_all_sets_for_event for two events, the first with
\* a per-page size below the light cap and the second with one above it;
\* every variable of the function is a local of its call.  The service
\* answers without totalPages.
ConcurrentSessions == {1, 2}

ConcurrentContainers(light, p) ==
    {c \in Containers(light, p) : c.totalPages = None /\ c.nodes # None}

InitConcurrent ==
    /\ entry = [s \in ConcurrentSessions |-> "fetch_all"]
    /\ event = [s \in ConcurrentSessions |-> <<>>]
    /\ event_id = [s \in ConcurrentSessions |-> IF s = 1 THEN Some(5) ELSE Some(7)]
    /\ per_page = [s \in ConcurrentSessions |->
                      IF s = 1 THEN SmallPerPage ELSE LightPerPageCap + 1]
    /\ max_pages = [s \in ConcurrentSessions |-> Some(MaxMaxPages)]
    /\ force_light = [s \in ConcurrentSessions |-> FALSE]
    /\ InitLocals(ConcurrentSessions)
    /\ all_sets = [s \in ConcurrentSessions |-> <<>>]
    /\ pc = [s \in ConcurrentSessions |-> "enter_fetch"]
    /\ InitNoQuery

NextConcurrent ==
    \/ \E s \in Sessions : EnterFetchAll(s)
    \/ \E s \in Sessions : BeginAttempt(s)
    \/ \E s \in Sessions :
           \E container \in ConcurrentContainers(light_mode[s], page[s]) :
               FetchPageOk(s, container)
    \/ \E s \in Sessions : FetchPageComplexity(s)
    \/ \E s \in Sessions : \E kind \in FailureKinds : FetchPageFailure(s, kind)

SpecConcurrent == InitConcurrent /\ [][NextConcurrent]_vars

\* ------------------------------------------------------------------------
\* Vocabulary of the properties
\* ------------------------------------------------------------------------
Max(a, b) == IF a > b THEN a ELSE b

\* fetch_all_sets_for_event returned a list
FetchReturned(s) == pc[s] \in {"classify", "returned"}

NPage(s) == Len(PageCalls(s))

\* every page request issued so far succeeded
AllPagesOk(s) == \A i \in 1..NPage(s) : PageCalls(s)[i].outcome = "ok"

\* the page requests so far are pages 1, 2, 3, ... in this order
PagesInOrder(s) == \A i \in 1..NPage(s) : PageCalls(s)[i].page = i

\* ------------------------------------------------------------------------
\* C1 - without max_pages, when every page response succeeds and carries
\* totalPages = N, the loop issues exactly max(N, 1) page requests, pages
\* 1, 2, ... in order, and then returns, whatever the node counts; while it
\* is still running it has issued fewer than N.
\* ------------------------------------------------------------------------
C1_ExactlyTotalPages ==
    \A s \in Sessions : \A N \in 0..MaxTotalPages :
        (max_pages[s] = None /\ AllPagesOk(s) /\ tpSeen[s] = {Some(N)})
        => /\ FetchReturned(s) => NPage(s) = Max(N, 1) /\ PagesInOrder(s)
           /\ pc[s] = "request" => NPage(s) < N /\ PagesInOrder(s)

\* C1 as stated: exactly N page requests, pages 1..N
C1_Original ==
    \A s \in Sessions : \A N \in 0..MaxTotalPages :
        (max_pages[s] = None /\ AllPagesOk(s) /\ tpSeen[s] = {Some(N)}
         /\ FetchReturned(s))
        => NPage(s) = N

\* totalPages = NPage >= 2 on every page, an empty first page, all fetched
C1_Witness ==
    \E s \in Sessions :
        /\ FetchReturned(s) /\ max_pages[s] = None /\ AllPagesOk(s)
        /\ NPage(s) >= 2 /\ tpSeen[s] = {Some(NPage(s))}
        /\ got[s][1] = 0

\* the per-page size an attempt must use: the requested size in FULL,
\* the requested size capped at 10 in LIGHT
EffectivePerPage(light, requested) ==
    IF light /\ requested > LightPerPageCap THEN LightPerPageCap
    ELSE requested

\* ------------------------------------------------------------------------
\* C2 - when every page response succeeds and none has totalPages, every
\* page before the last one fetched carried at least the effective per-page
\* size, and the loop ended on a page with fewer nodes than that, or because
\* a supplied non-zero max_pages was reached; while the loop is running,
\* every page so far was full.
\* ------------------------------------------------------------------------
C2_StopsAtFirstShortPage ==
    \A s \in Sessions :
        (AllPagesOk(s) /\ tpSeen[s] = {None})
        => LET eff == EffectivePerPage(PageCalls(s)[1].light, per_page[s])
           IN  /\ Len(got[s]) = NPage(s)
               /\ PagesInOrder(s)
               /\ FetchReturned(s) =>
                    /\ \A i \in 1..(NPage(s) - 1) : got[s][i] >= eff
                    /\ \/ got[s][NPage(s)] < eff
                       \/ Truthy(max_pages[s]) /\ NPage(s) = max_pages[s][1]
               /\ pc[s] = "request" =>
                    \A i \in 1..NPage(s) : got[s][i] >= eff

\* C2 as stated: a page of exactly the effective per-page size never ends
\* the loop, so the loop ends on a short page only
C2_Original ==
    \A s \in Sessions :
        (AllPagesOk(s) /\ tpSeen[s] = {None} /\ FetchReturned(s))
        => LET eff == EffectivePerPage(PageCalls(s)[1].light, per_page[s])
           IN  /\ \A i \in 1..(NPage(s) - 1) : got[s][i] >= eff
               /\ got[s][NPage(s)] < eff

\* LIGHT with a requested size above the cap: a page of exactly 10 nodes is
\* followed by another request, and a short page ends the loop
C2_Witness ==
    \E s \in Sessions :
        /\ FetchReturned(s) /\ AllPagesOk(s) /\ tpSeen[s] = {None}
        /\ NPage(s) >= 2
        /\ PageCalls(s)[1].light /\ per_page[s] > LightPerPageCap
        /\ got[s][1] = LightPerPageCap
        /\ got[s][NPage(s)] < LightPerPageCap

\* page requests of the call that used the LIGHT / the FULL query
IsLightCall(c) == c.op = "page" /\ c.light
IsFullCall(c) == c.op = "page" /\ ~c.light
LightCalls(s) == SelectSeq(calls[s], IsLightCall)
FullCalls(s) == SelectSeq(calls[s], IsFullCall)

IsRejected(c) == c.op = "page" /\ c.outcome = "GraphQLComplexityError"
Rejections(s) == SelectSeq(calls[s], IsRejected)

\* the nodes the service returned on pages p, p+1, ... of an attempt, given
\* the node count of every page, in page order and in order within a page
RECURSIVE ConcatPages(_, _, _)
ConcatPages(light, counts, p) ==
    IF p > Len(counts) THEN <<>>
    ELSE ServerNodes(light, p, counts[p]) \o ConcatPages(light, counts, p + 1)

\* ------------------------------------------------------------------------
\* C3 - when the FULL attempt is complexity-rejected after one or more
\* successful pages and the LIGHT attempt succeeds, the returned list is
\* the concatenation of the pages received in LIGHT mode only.
\* ------------------------------------------------------------------------
FullRejectedAfterPages(s) ==
    /\ Len(FullCalls(s)) >= 2
    /\ FullCalls(s)[Len(FullCalls(s))].outcome = "GraphQLComplexityError"

C3_LightPagesOnly ==
    \A s \in Sessions :
        (FetchReturned(s) /\ FullRejectedAfterPages(s))
        => /\ Len(got[s]) = Len(LightCalls(s))
           /\ all_sets[s] = ConcatPages(TRUE, got[s], 1)
           /\ \A i \in 1..Len(all_sets[s]) : all_sets[s][i].light

\* two FULL pages fetched, the third rejected, then two LIGHT pages with
\* records returned
C3_Witness ==
    \E s \in Sessions :
        /\ FetchReturned(s) /\ FullRejectedAfterPages(s)
        /\ Len(FullCalls(s)) >= 3
        /\ Len(LightCalls(s)) >= 2
        /\ got[s][1] > 0 /\ got[s][2] > 0

\* ------------------------------------------------------------------------
\* C4 - a complexity rejection in FULL followed by one in LIGHT ends the
\* call with the terminal RuntimeError chained to the rejection: the
\* rejected LIGHT request is the last request, there were exactly two
\* attempts, and no list is returned.
\* ------------------------------------------------------------------------
C4_ExhaustedFallback ==
    \A s \in Sessions :
        Len(Rejections(s)) >= 2
        => /\ pc[s] = "raised"
           /\ err[s] = "RuntimeError_LightComplexity"
           /\ cause[s] = "GraphQLComplexityError"
           /\ Len(Rejections(s)) = 2
           /\ ~Rejections(s)[1].light /\ Rejections(s)[2].light
           /\ IsRejected(calls[s][Len(calls[s])])
           /\ all_sets[s] = <<>> /\ ongoing[s] = <<>>

\* both rejections come after a successful page of their attempt
C4_Witness ==
    \E s \in Sessions :
        /\ Len(Rejections(s)) = 2
        /\ Rejections(s)[1].page >= 2 /\ Rejections(s)[2].page >= 2
        /\ pc[s] = "raised"

\* ------------------------------------------------------------------------
\* C5 - the mode of the page requests of one call is monotonic: no FULL
\* request follows a LIGHT request.
\* ------------------------------------------------------------------------
C5_ModeMonotonic ==
    \A s \in Sessions :
        \A i, j \in 1..NPage(s) :
            (i < j /\ PageCalls(s)[i].light) => PageCalls(s)[j].light

\* FULL requests, a downgrade, then several LIGHT requests
C5_Witness ==
    \E s \in Sessions :
        /\ Len(FullCalls(s)) >= 2 /\ Len(LightCalls(s)) >= 2
        /\ ~force_light[s]

\* ------------------------------------------------------------------------
\* C6 - within one attempt (the requests of one mode) the page indices are
\* 1, 2, 3, ... in order, none skipped or repeated; the LIGHT attempt starts
\* over at page 1.
\* ------------------------------------------------------------------------
C6_PagesInOrderPerAttempt ==
    \A s \in Sessions :
        /\ \A i \in 1..Len(FullCalls(s)) : FullCalls(s)[i].page = i
        /\ \A i \in 1..Len(LightCalls(s)) : LightCalls(s)[i].page = i
        /\ \A i \in 1..(NPage(s) - 1) :
              PageCalls(s)[i + 1].page = 1
              <=> PageCalls(s)[i].outcome = "GraphQLComplexityError"

\* C6 as stated: over the whole call every page index is requested once
C6_Original ==
    \A s \in Sessions : PagesInOrder(s)

\* FULL pages 1, 2 then LIGHT pages 1, 2
C6_Witness ==
    \E s \in Sessions :
        /\ Len(FullCalls(s)) = 2 /\ Len(LightCalls(s)) >= 2

\* ------------------------------------------------------------------------
\* C7 - every call that was given a non-zero max_pages = m terminates: no
\* attempt issues more than m page requests or asks for a page above m, so
\* the call issues at most 2m requests, and until it has returned or raised
\* it can always take its next step.  (Every step either issues a request
\* or moves the call forward, so a bound on the requests bounds the run.)
\* ------------------------------------------------------------------------
C7_TerminatesWithCap ==
    \A s \in Sessions :
        Truthy(max_pages[s])
        => /\ Len(FullCalls(s)) <= max_pages[s][1]
           /\ Len(LightCalls(s)) <= max_pages[s][1]
           /\ NPage(s) <= 2 * max_pages[s][1]
           /\ pc[s] = "request" => page[s] <= max_pages[s][1]
           /\ ~beyond[s]
           /\ Done(s) \/ ENABLED Next

\* C7 as stated: every call terminates, with or without max_pages
C7_Original ==
    <>(\A s \in Sessions : Done(s))

\* only full pages without totalPages came back: max_pages ended the call
C7_Witness ==
    \E s \in Sessions :
        /\ Done(s) /\ FetchReturned(s) /\ Truthy(max_pages[s])
        /\ tpSeen[s] = {None}
        /\ NPage(s) = max_pages[s][1] /\ NPage(s) >= 2
        /\ \A i \in 1..Len(got[s]) : got[s][i] >= used_per_page[s]

\* ------------------------------------------------------------------------
\* C8 - with max_pages = m supplied no page index above m is requested, and
\* when every response succeeds and carries totalPages = T > m the call
\* returns exactly the nodes of pages 1..m.
\* ------------------------------------------------------------------------
C8_Original ==
    \A s \in Sessions :
        max_pages[s] # None
        => /\ \A i \in 1..NPage(s) : PageCalls(s)[i].page <= max_pages[s][1]
           /\ \A T \in 0..MaxTotalPages :
                (FetchReturned(s) /\ AllPagesOk(s) /\ tpSeen[s] = {Some(T)}
                 /\ T > max_pages[s][1])
                => /\ NPage(s) = max_pages[s][1]
                   /\ all_sets[s] =
                        ConcatPages(light_mode[s], got[s], 1)

\* what the code does for a non-zero cap: C8 with m >= 1
C8_NonZeroCap ==
    \A s \in Sessions :
        Truthy(max_pages[s])
        => /\ \A i \in 1..NPage(s) : PageCalls(s)[i].page <= max_pages[s][1]
           /\ \A T \in 0..MaxTotalPages :
                (FetchReturned(s) /\ AllPagesOk(s) /\ tpSeen[s] = {Some(T)}
                 /\ T > max_pages[s][1])
                => /\ NPage(s) = max_pages[s][1]
                   /\ Len(got[s]) = max_pages[s][1]
                   /\ all_sets[s] =
                        ConcatPages(light_mode[s], got[s], 1)

\* ------------------------------------------------------------------------
\* C9 - the classifier returns exactly the records that have a start
\* timestamp (startedAt or startAt) and lack a completion timestamp or a
\* winner id, in input order.
\* ------------------------------------------------------------------------
HasStart(r) == r.startedAt # None \/ r.startAt # None

OngoingBySpec(r) ==
    HasStart(r) /\ (r.completedAt = None \/ r.winnerId = None)

RECURSIVE KeepOngoing(_)
KeepOngoing(list) ==
    IF list = <<>> THEN <<>>
    ELSE IF OngoingBySpec(Head(list))
         THEN <<Head(list)>> \o KeepOngoing(Tail(list))
         ELSE KeepOngoing(Tail(list))

C9_ClassifierExact ==
    \A s \in Sessions :
        (entry[s] = "get_ongoing" /\ pc[s] = "returned")
        => ongoing[s] = KeepOngoing(all_sets[s])

\* a started record without completion and winner, a record without any
\* start, a record with start, completion and winner: only the first is kept
C9_Witness ==
    \E s \in Sessions :
        /\ entry[s] = "get_ongoing" /\ pc[s] = "returned"
        /\ Len(all_sets[s]) = 3
        /\ all_sets[s][1].startedAt # None /\ all_sets[s][1].completedAt = None
        /\ all_sets[s][1].winnerId = None
        /\ ~HasStart(all_sets[s][2])
        /\ HasStart(all_sets[s][3]) /\ all_sets[s][3].completedAt # None
        /\ all_sets[s][3].winnerId # None
        /\ ongoing[s] = <<all_sets[s][1]>>

\* ------------------------------------------------------------------------
\* C10 - get_ongoing_sets_for_event with an event reference that parses as
\* an integer issues page requests only, each carrying that integer as the
\* event id; with any other reference its first request, and only that one,
\* is the slug resolution.
\* ------------------------------------------------------------------------
\* the integer an event reference of the model denotes, if any
RefValue(ref) ==
    CASE ref = <<"4", "2">> -> Some(42)
      [] ref = <<" ", "7">> -> Some(7)
      [] OTHER -> None

C10_Resolution ==
    \A s \in Sessions :
        entry[s] = "get_ongoing"
        => IF RefValue(event[s]) # None
           THEN \A i \in 1..Len(calls[s]) :
                    /\ calls[s][i].op = "page"
                    /\ calls[s][i].eventId = RefValue(event[s])
           ELSE /\ pc[s] = "resolve" => calls[s] = <<>>
                /\ pc[s] # "resolve" =>
                     /\ Len(calls[s]) >= 1
                     /\ calls[s][1].op = "slug"
                     /\ calls[s][1].slug = event[s]
                     /\ \A i \in 2..Len(calls[s]) : calls[s][i].op = "page"

\* a slug was resolved with one request, then pages were fetched
C10_Witness ==
    \E s \in Sessions :
        /\ entry[s] = "get_ongoing" /\ pc[s] = "returned"
        /\ RefValue(event[s]) = None
        /\ calls[s][1].op = "slug"
        /\ NPage(s) >= 2 /\ Len(calls[s]) = NPage(s) + 1

\* ------------------------------------------------------------------------
\* C11 - a failure of a page request that is not a complexity rejection
\* ends fetch_all_sets_for_event at once with that same error: the failed
\* request is the last request of the call (no further page, no LIGHT
\* request after a failure in FULL), nothing is chained to the error, and
\* no list is returned.
\* ------------------------------------------------------------------------
IsFailed(c) == c.op = "page" /\ c.outcome \in FailureKinds

C11_FailFast ==
    \A s \in Sessions :
        \A i \in 1..Len(calls[s]) :
            IsFailed(calls[s][i])
            => /\ i = Len(calls[s])
               /\ pc[s] = "raised"
               /\ err[s] = calls[s][i].outcome
               /\ cause[s] = "none"
               /\ attempt_light[s] = calls[s][i].light
               /\ all_sets[s] = <<>> /\ ongoing[s] = <<>>

\* a FULL request fails on page 2, after a page with records was fetched
C11_Witness ==
    \E s \in Sessions :
        /\ NPage(s) = 2
        /\ IsFailed(PageCalls(s)[2]) /\ ~PageCalls(s)[2].light
        /\ sets[s] # <<>>
        /\ pc[s] = "raised"

\* ------------------------------------------------------------------------
\* C12 - a complexity rejection of a FULL request stops the FULL attempt:
\* it is the last FULL request of the call, and the request that follows
\* it, if any, is page 1 in LIGHT mode.
\* ------------------------------------------------------------------------
C12_RestartInLight ==
    \A s \in Sessions :
        \A i \in 1..NPage(s) :
            (IsRejected(PageCalls(s)[i]) /\ ~PageCalls(s)[i].light)
            => /\ \A j \in (i + 1)..NPage(s) : PageCalls(s)[j].light
               /\ i < NPage(s) => PageCalls(s)[i + 1].page = 1
               /\ pc[s] \in {"attempt", "request"} => attempt_light[s]
               /\ pc[s] # "raised"
                  \/ IsFailed(PageCalls(s)[NPage(s)])
                  \/ PageCalls(s)[NPage(s)].light

\* FULL page 2 is rejected and the next request is LIGHT page 1
C12_Witness ==
    \E s \in Sessions :
        /\ NPage(s) >= 3
        /\ IsRejected(PageCalls(s)[2]) /\ ~PageCalls(s)[2].light
        /\ PageCalls(s)[2].page = 2
        /\ PageCalls(s)[3].light /\ PageCalls(s)[3].page = 1

\* ------------------------------------------------------------------------
\* C13 - with force_light = True no request of the call uses the FULL query,
\* and the first complexity rejection ends the call with the RuntimeError
\* of the exhausted fallback: it is the last request, nothing is retried.
\* ------------------------------------------------------------------------
C13_ForcedLight ==
    \A s \in Sessions :
        force_light[s]
        => /\ FullCalls(s) = <<>>
           /\ pc[s] \in {"attempt", "request"} => attempt_light[s]
           /\ \A i \in 1..Len(calls[s]) :
                 IsRejected(calls[s][i])
                 => /\ i = Len(calls[s])
                    /\ pc[s] = "raised"
                    /\ err[s] = "RuntimeError_LightComplexity"
                    /\ cause[s] = "GraphQLComplexityError"
                    /\ all_sets[s] = <<>>

\* forced light: a LIGHT page succeeds, LIGHT page 2 is rejected
C13_Witness ==
    \E s \in Sessions :
        /\ force_light[s]
        /\ NPage(s) = 2
        /\ PageCalls(s)[1].outcome = "ok"
        /\ IsRejected(PageCalls(s)[2])
        /\ pc[s] = "raised"

\* ------------------------------------------------------------------------
\* C14 - every page request carries perPage = the requested size when it
\* uses the FULL query and min(requested size, 10) when it uses the LIGHT
\* query, so the size is the same for all requests of an attempt.
\* ------------------------------------------------------------------------
C14_PerPageOfMode ==
    \A s \in Sessions :
        \A i \in 1..NPage(s) :
            LET c == PageCalls(s)[i]
            IN  /\ c.perPage = EffectivePerPage(c.light, per_page[s])
                /\ \A j \in 1..NPage(s) :
                      PageCalls(s)[j].light = c.light
                      => PageCalls(s)[j].perPage = c.perPage

\* a requested size above 10: the FULL request carries it, the LIGHT
\* requests after the rejection carry 10
C14_Witness ==
    \E s \in Sessions :
        /\ per_page[s] > LightPerPageCap
        /\ NPage(s) >= 3
        /\ ~PageCalls(s)[1].light /\ PageCalls(s)[1].perPage = per_page[s]
        /\ PageCalls(s)[2].light /\ PageCalls(s)[2].perPage = LightPerPageCap
        /\ PageCalls(s)[3].light /\ PageCalls(s)[3].perPage = LightPerPageCap

\* ------------------------------------------------------------------------
\* C15 - the list fetch_all_sets_for_event returns is the concatenation, in
\* request order and in the service's order within a page, of the nodes of
\* every page of the final attempt; its length is the sum of the node
\* counts of those pages.
\* ------------------------------------------------------------------------
RECURSIVE SumSeq(_)
SumSeq(counts) ==
    IF counts = <<>> THEN 0 ELSE Head(counts) + SumSeq(Tail(counts))

\* the requests of the final attempt: those after the last rejection
FinalAttemptCalls(s) ==
    LET P == PageCalls(s)
        last == Max(0, CHOOSE k \in 0..Len(P) :
                          /\ k > 0 => IsRejected(P[k])
                          /\ \A j \in (k + 1)..Len(P) : ~IsRejected(P[j]))
    IN  SubSeq(P, last + 1, Len(P))

C15_ExactConcatenation ==
    \A s \in Sessions :
        FetchReturned(s)
        => /\ Len(got[s]) = Len(FinalAttemptCalls(s))
           /\ \A i \in 1..Len(FinalAttemptCalls(s)) :
                 /\ FinalAttemptCalls(s)[i].page = i
                 /\ FinalAttemptCalls(s)[i].light = light_mode[s]
                 /\ FinalAttemptCalls(s)[i].outcome = "ok"
           /\ all_sets[s] = ConcatPages(light_mode[s], got[s], 1)
           /\ Len(all_sets[s]) = SumSeq(got[s])

\* three pages of one attempt, the first two non-empty, all in the result
C15_Witness ==
    \E s \in Sessions :
        /\ FetchReturned(s)
        /\ Len(got[s]) = 3
        /\ got[s][1] > 0 /\ got[s][2] > 0
        /\ Len(all_sets[s]) > got[s][1]
        /\ all_sets[s][got[s][1] + 1] = ServerNode(light_mode[s], 2, 1)

\* ------------------------------------------------------------------------
\* C16 - a response with an "errors" list is a complexity rejection if and
\* only if at least one of its messages contains, case-insensitively,
\* "complexity" or "maximum of 1000 objects", at whatever position; every
\* other response with an "errors" list is a RuntimeError carrying the
\* whole list; only a response without "errors" is returned as data.
\* ------------------------------------------------------------------------
\* the same letter, case ignored
SameLetter(a, b) ==
    \/ a = b
    \/ \E i \in 1..26 : {a, b} = {UpperCase[i], LowerCase[i]}

\* text contains needle, case ignored
ContainsIgnoringCase(text, needle) ==
    \E i \in 0..(Len(text) - Len(needle)) :
        \A k \in 1..Len(needle) : SameLetter(text[i + k], needle[k])

MentionsComplexity(text) ==
    \/ ContainsIgnoringCase(text, KwComplexity)
    \/ ContainsIgnoringCase(text, KwMaxObjects)

C16_Classification ==
    (resp # None /\ result # None)
    => LET r == resp[1]
           out == result[1]
       IN  /\ (r.status_ok /\ r.errors # None) =>
                LET msgs == r.errors[1]
                    hit == {i \in 1..Len(msgs) :
                               MentionsComplexity(MessageOf(msgs[i]))}
                IN  /\ out.kind = "GraphQLComplexityError" <=> hit # {}
                    /\ hit # {} =>
                         \E i \in hit : out.message = MessageOf(msgs[i])
                    /\ hit = {} =>
                         /\ out.kind = "RuntimeError_GraphQLErrors"
                         /\ out.errors = msgs
           /\ out.kind = "data" <=> (r.status_ok /\ r.errors = None)
           /\ out.kind = "data" => out.data = r.data

\* the matching message comes second, after an unrelated error, in mixed
\* case
C16_Witness ==
    /\ resp # None /\ result # None
    /\ resp[1].status_ok
    /\ resp[1].errors = Some(<<[message |-> Some(MsgOther)],
                               [message |-> Some(MsgObjects)]>>)
    /\ result[1].kind = "GraphQLComplexityError"

\* ------------------------------------------------------------------------
\* C17 - when the slug resolution answers without an event,
\* get_ongoing_sets_for_event ends with ValueError (not a RuntimeError, not
\* a transport error) and that resolution is the only request of the call:
\* it is not repeated and no page is requested.
\* ------------------------------------------------------------------------
IsNoEvent(c) == c.op = "slug" /\ c.outcome = "no_event"

C17_NotFound ==
    \A s \in Sessions :
        /\ (\E i \in 1..Len(calls[s]) : IsNoEvent(calls[s][i]))
           => /\ Len(calls[s]) = 1
              /\ calls[s][1].slug = event[s]
              /\ pc[s] = "raised"
              /\ err[s] = "ValueError"
              /\ cause[s] = "none"
              /\ ongoing[s] = <<>>
        /\ err[s] = "ValueError"
           => /\ entry[s] = "get_ongoing"
              /\ Len(calls[s]) = 1 /\ IsNoEvent(calls[s][1])

\* the slug of the model that is no integer was looked up and not found
C17_Witness ==
    \E s \in Sessions :
        /\ event[s] = <<"e", "v">>
        /\ calls[s] # <<>> /\ IsNoEvent(calls[s][1])
        /\ pc[s] = "raised" /\ err[s] = "ValueError"

\* ------------------------------------------------------------------------
\* C19 - a complexity rejection of the slug resolution ends
\* get_ongoing_sets_for_event with that GraphQLComplexityError itself: no
\* page request follows in either mode, and the error is not turned into
\* the RuntimeError of the exhausted fallback.
\* ------------------------------------------------------------------------
IsSlugRejected(c) == c.op = "slug" /\ c.outcome = "GraphQLComplexityError"

Locals(s) ==
    <<attempt_light[s], used_per_page[s], light_mode[s], sets[s], page[s],
      all_sets[s], pc[s], err[s], cause[s]>>

\* this step is a step of call s only
StepOf(s) ==
    \A t \in Sessions \ {s} :
        /\ Locals(t)' = Locals(t)
        /\ calls'[t] = calls[t] /\ got'[t] = got[t]

OwnRequestsOnly(s) ==
    /\ \A i \in 1..NPage(s) :
          /\ PageCalls(s)[i].eventId = event_id[s]
          /\ PageCalls(s)[i].perPage =
                EffectivePerPage(PageCalls(s)[i].light, per_page[s])
    /\ (attempt_light[s] \/ light_mode[s] \/ LightCalls(s) # <<>>)
       => Rejections(s) # <<>>
    /\ pc[s] = "request" =>
          /\ page[s] = Len(got[s]) + 1
          /\ sets[s] = ConcatPages(light_mode[s], got[s], 1)
    /\ FetchReturned(s) =>
          /\ Len(got[s]) = Len(FinalAttemptCalls(s))
          /\ all_sets[s] = ConcatPages(light_mode[s], got[s], 1)

C18_SessionsIsolated ==
    /\ [](\A s \in Sessions : OwnRequestsOnly(s))
    /\ [][\E s \in Sessions : StepOf(s)]_vars

\* the first call was rejected and starts over in LIGHT mode while the
\* second, still in FULL mode with its own per-page size, has returned
\* its first page
C18_Witness ==
    /\ Sessions = ConcurrentSessions
    /\ Rejections(1) # <<>> /\ light_mode[1] /\ pc[1] = "request"
    /\ page[1] = 2 /\ sets[1] # <<>>
    /\ Rejections(2) = <<>> /\ ~attempt_light[2] /\ ~light_mode[2]
    /\ used_per_page[2] = LightPerPageCap + 1
    /\ FetchReturned(2) /\ all_sets[2] # <<>>
    /\ all_sets[2] # sets[1]

====
